---- MODULE Spec2Model ----
(***************************************************************************)
(* Model of the air-quality ETL pipeline (src/urban):                      *)
(*   load.py          the batch insert loop with retries and backoff       *)
(*   transform.py     the flattening of raw documents into rows            *)
(*   run_pipeline.py  the runner of the four stage scripts                 *)
(* Each script is a specification of its own (SpecLoad, SpecTransform,     *)
(* SpecRunner); the variables of the other scripts stay at their initial   *)
(* values.                                                                 *)
(***************************************************************************)
EXTENDS Integers, Sequences, FiniteSets, TLC

VARIABLES
    \* ---- load.py
    records,         \* the rows read from the staged CSV (load.py:54)
    BATCH_SIZE,      \* load.py:27
    MAX_RETRIES,     \* load.py:28
    i,               \* offset of the for loop (load.py:60)
    batch,           \* the current slice (load.py:61)
    attempt,         \* load.py:62
    total_inserted,  \* load.py:55
    lpc,             \* position in load.py
    table,           \* rows held by the remote table air_quality_data
    events,          \* history: insert attempts, sleeps and give-ups, in order
    formed,          \* history: the slices formed at load.py:61, in order
    failedBatches,   \* history: batch numbers printed at load.py:74
    \* ---- transform.py
    docs,            \* the content of each file of RAW_DIR, by position in RawFiles
    fidx,            \* position of the per-file loop (transform.py:73)
    all_records,     \* transform.py:71
    df,              \* the DataFrame (transform.py:99-102)
    out,             \* the staged CSV (transform.py:110)
    tpc,             \* position in transform.py
    terr,            \* the exception that ended transform.py, if any
    \* ---- run_pipeline.py
    present,         \* the stage scripts that exist in the working directory
    step,            \* the run_step call main() has reached (1..4; 5: past the last)
    rpc,             \* position in run_pipeline.py
    started,         \* history: the scripts launched, in order
    finished,        \* history: the scripts that ended, with their return codes
    console,         \* what the runner printed of the stages' output
    exit_code        \* the runner's exit status, -1 while it runs

loadVars == <<records, BATCH_SIZE, MAX_RETRIES, i, batch, attempt,
              total_inserted, lpc, table, events, formed, failedBatches>>

transformVars == <<docs, fidx, all_records, df, out, tpc, terr>>

runnerVars == <<present, step, rpc, started, finished, console, exit_code>>

vars == <<loadVars, transformVars, runnerVars>>

\* ------------------------------------------------------------------ bounds
MaxRows == 5
MaxBatchSize == 3
MaxRetriesBound == 2
MaxTimes == 2

\* ----------------------------------------------------------------- helpers
Min(a, b) == IF a < b THEN a ELSE b

RECURSIVE Pow2(_)
Pow2(n) == IF n = 0 THEN 1 ELSE 2 * Pow2(n - 1)

RECURSIVE Concat(_)
Concat(ss) == IF ss = <<>> THEN <<>> ELSE Head(ss) \o Concat(Tail(ss))

Range(s) == {s[p] : p \in DOMAIN s}

\* =================================================================== load.py

\* records[i:i+BATCH_SIZE], a Python slice (0-based, clipped at the end)
SliceMut(recs, off, size) == SubSeq(recs, off + 1, Min(off + size, Len(recs)) - 1)
Slice(recs, off, size) == SubSeq(recs, off + 1, Min(off + size, Len(recs)))

\* i//BATCH_SIZE + 1, the number printed for a batch
BatchNumber(off, size) == (off \div size) + 1

\* while attempt <= MAX_RETRIES
RetryAllowedMut(att, maxr) == att < maxr
RetryAllowed(att, maxr) == att <= maxr

\* total_inserted += len(batch)
AddInsertedMut(total, b, size) == total + size
AddInserted(total, b, size) == total + Len(b)

\* time.sleep(2 ** attempt)
BackoffDelay(att) == Pow2(att)

\* where the for loop goes on after the while/else clause has printed the failure
AfterGiveUpMut == "done"
AfterGiveUp == "for"

LoadInit ==
    /\ \E n \in 0..MaxRows : records = [k \in 1..n |-> k]
    /\ BATCH_SIZE \in 1..MaxBatchSize
    /\ MAX_RETRIES \in 0..MaxRetriesBound
    /\ i = 0
    /\ batch = <<>>
    /\ attempt = 0
    /\ total_inserted = 0
    /\ lpc = "for"
    /\ table = <<>>
    /\ events = <<>>
    /\ formed = <<>>
    /\ failedBatches = <<>>
    \* transform.py is not run
    /\ docs = <<>> /\ fidx = 1 /\ all_records = <<>> /\ df = <<>>
    /\ out = [written |-> FALSE, rows |-> <<>>] /\ tpc = "idle" /\ terr = "none"
    \* run_pipeline.py is not run
    /\ present = {} /\ step = 1 /\ rpc = "idle" /\ started = <<>>
    /\ finished = <<>> /\ console = <<>> /\ exit_code = -1

\* for i in range(0, len(records), BATCH_SIZE): batch = ...; attempt = 0
ForIter ==
    /\ lpc = "for"
    /\ i < Len(records)
    /\ batch' = Slice(records, i, BATCH_SIZE)
    /\ formed' = Append(formed, batch')
    /\ attempt' = 0
    /\ lpc' = "while"
    /\ UNCHANGED <<records, BATCH_SIZE, MAX_RETRIES, i, total_inserted, table,
                   events, failedBatches>>
    /\ UNCHANGED <<transformVars, runnerVars>>

\* the range is exhausted: print the total
ForExit ==
    /\ lpc = "for"
    /\ i >= Len(records)
    /\ lpc' = "done"
    /\ UNCHANGED <<records, BATCH_SIZE, MAX_RETRIES, i, batch, attempt,
                   total_inserted, table, events, formed, failedBatches>>
    /\ UNCHANGED <<transformVars, runnerVars>>

\* while attempt <= MAX_RETRIES: ... else: ...
WhileTest ==
    /\ lpc = "while"
    /\ lpc' = IF RetryAllowed(attempt, MAX_RETRIES) THEN "try" ELSE "else"
    /\ UNCHANGED <<records, BATCH_SIZE, MAX_RETRIES, i, batch, attempt,
                   total_inserted, table, events, formed, failedBatches>>
    /\ UNCHANGED <<transformVars, runnerVars>>

\* insert(batch).execute() returns: count the rows, print, break
InsertOk ==
    /\ lpc = "try"
    /\ table' = table \o batch
    /\ total_inserted' = AddInserted(total_inserted, batch, BATCH_SIZE)
    /\ events' = Append(events, [kind |-> "ok", batch |-> BatchNumber(i, BATCH_SIZE),
                                 attempt |-> attempt, dur |-> 0])
    /\ i' = i + BATCH_SIZE
    /\ lpc' = "for"
    /\ UNCHANGED <<records, BATCH_SIZE, MAX_RETRIES, batch, attempt, formed,
                   failedBatches>>
    /\ UNCHANGED <<transformVars, runnerVars>>

\* insert(batch).execute() raises: attempt += 1, print
InsertFail ==
    /\ lpc = "try"
    /\ attempt' = attempt + 1
    /\ events' = Append(events, [kind |-> "fail", batch |-> BatchNumber(i, BATCH_SIZE),
                                 attempt |-> attempt', dur |-> 0])
    /\ lpc' = "sleep"
    /\ UNCHANGED <<records, BATCH_SIZE, MAX_RETRIES, i, batch, total_inserted,
                   table, formed, failedBatches>>
    /\ UNCHANGED <<transformVars, runnerVars>>

\* time.sleep(2 ** attempt), the last statement of the except clause
Sleep ==
    /\ lpc = "sleep"
    /\ events' = Append(events, [kind |-> "sleep", batch |-> BatchNumber(i, BATCH_SIZE),
                                 attempt |-> attempt, dur |-> BackoffDelay(attempt)])
    /\ lpc' = "while"
    /\ UNCHANGED <<records, BATCH_SIZE, MAX_RETRIES, i, batch, attempt,
                   total_inserted, table, formed, failedBatches>>
    /\ UNCHANGED <<transformVars, runnerVars>>

\* the else clause of the while loop: print the failed batch, go on with the for loop
GiveUp ==
    /\ lpc = "else"
    /\ failedBatches' = Append(failedBatches, BatchNumber(i, BATCH_SIZE))
    /\ events' = Append(events, [kind |-> "giveup", batch |-> BatchNumber(i, BATCH_SIZE),
                                 attempt |-> attempt, dur |-> 0])
    /\ i' = i + BATCH_SIZE
    /\ lpc' = AfterGiveUp
    /\ UNCHANGED <<records, BATCH_SIZE, MAX_RETRIES, batch, attempt,
                   total_inserted, table, formed>>
    /\ UNCHANGED <<transformVars, runnerVars>>

LoadNext ==
    \/ ForIter
    \/ ForExit
    \/ WhileTest
    \/ InsertOk
    \/ InsertFail
    \/ Sleep
    \/ GiveUp

\* ============================================================== transform.py

POLLUTANTS == <<"pm10", "pm2_5", "carbon_monoxide", "nitrogen_dioxide",
                "sulphur_dioxide", "ozone", "uv_index">>
PollutantSet == Range(POLLUTANTS)

\* the terms of compute_severity, in the order they are evaluated, with their weights
SeverityTerms == << <<"pm2_5", 5>>, <<"pm10", 3>>, <<"nitrogen_dioxide", 4>>,
                    <<"sulphur_dioxide", 4>>, <<"carbon_monoxide", 2>>, <<"ozone", 3>> >>

\* the files RAW_DIR.glob("*_raw_*.json") yields, and the city of each:
\* stem.split("_raw_")[0].replace("_", " ").title()
RawFiles == <<"delhi_raw_20240101", "navi_mumbai_raw_20240101">>
CityOf(f) ==
    CASE f = "delhi_raw_20240101" -> "Delhi"
      [] f = "navi_mumbai_raw_20240101" -> "Navi Mumbai"

\* cell values: a number, a float NaN, or Python's None
Num(v) == [k |-> "num", v |-> v]
NaN == [k |-> "nan", v |-> 0]
None == [k |-> "none", v |-> 0]
IsNull(x) == x.k # "num"

\* JSON readings: a number or null
RawNum(v) == [null |-> FALSE, v |-> v]
RawNull == [null |-> TRUE, v |-> 0]

\* timestamps of the time axis: ISO strings of consecutive hours, or text that is
\* no timestamp
ValidTimes == <<"2024-01-01T00:00", "2024-01-01T01:00", "2024-01-01T02:00",
                "2024-01-01T03:00">>
Garbage == "not-a-time"

\* pd.to_datetime(timestamp): the parsed time (here its hour), or ValueError
ToDatetime(ts) ==
    IF \E h \in DOMAIN ValidTimes : ValidTimes[h] = ts
    THEN [ok |-> TRUE, hour |-> (CHOOSE h \in DOMAIN ValidTimes : ValidTimes[h] = ts) - 1]
    ELSE [ok |-> FALSE, hour |-> 0]

\* pd.to_numeric(value, errors="coerce"): null becomes NaN
ToNumeric(raw) == IF raw.null THEN NaN ELSE Num(raw.v)

\* ---- the documents RAW_DIR may hold
TimeAxes ==
    UNION {[1..n -> {"valid", "garbage"}] : n \in 0..MaxTimes}
AxisOf(shape) ==
    [p \in DOMAIN shape |-> IF shape[p] = "valid" THEN ValidTimes[p] ELSE Garbage]
ReadingArrays(v) ==
    UNION {[1..n -> {RawNum(v), RawNull}] : n \in 0..MaxTimes}
Full(n, v) == [p \in 1..n |-> RawNum(v)]

\* a document whose five other severity pollutants and whose uv_index are each
\* either missing or a full array
JsonDoc(axis, pm, others, uv) ==
    [kind |-> "json",
     time |-> axis,
     hourly |-> [pol \in PollutantSet |->
                    IF pol = "pm2_5" THEN pm
                    ELSE IF pol = "uv_index"
                         THEN (IF uv THEN Full(Len(axis), 1) ELSE <<>>)
                         ELSE (IF others THEN Full(Len(axis), 20) ELSE <<>>)]]
BadJson == [kind |-> "badjson", time |-> <<>>, hourly |-> [pol \in PollutantSet |-> <<>>]]

Documents ==
    {BadJson} \cup
    {JsonDoc(AxisOf(sh), pm, others, uv) :
        sh \in TimeAxes, pm \in ReadingArrays(50),
        others \in BOOLEAN, uv \in BOOLEAN}

\* ---- utility functions (transform.py:36-66)
compute_aqi(pm2_5) ==
    IF IsNull(pm2_5) THEN "None"
    ELSE IF pm2_5.v <= 50 THEN "Good"
    ELSE IF pm2_5.v <= 100 THEN "Moderate"
    ELSE IF pm2_5.v <= 200 THEN "Unhealthy"
    ELSE IF pm2_5.v <= 300 THEN "Very Unhealthy"
    ELSE "Hazardous"

\* float arithmetic: NaN propagates
Times(x, w) == IF x.k = "num" THEN Num(x.v * w) ELSE NaN
Plus(x, y) == IF x.k = "num" /\ y.k = "num" THEN Num(x.v + y.v) ELSE NaN

\* row.get(pol, 0): every row of the frame has every pollutant column, so the
\* default is never used and the cell itself comes back
RowGet(row, pol) == row.vals[pol]

RECURSIVE SeveritySum(_, _)
SeveritySum(row, terms) ==
    IF terms = <<>> THEN Num(0)
    ELSE Plus(SeveritySum(row, SubSeq(terms, 1, Len(terms) - 1)),
              Times(RowGet(row, terms[Len(terms)][1]), terms[Len(terms)][2]))

compute_severity(row) == SeveritySum(row, SeverityTerms)

\* None * 5 raises TypeError
SeverityRaises(row) ==
    \E t \in DOMAIN SeverityTerms : RowGet(row, SeverityTerms[t][1]).k = "none"

\* comparisons with NaN are False
classify_risk(severity) ==
    IF severity.k = "num" /\ severity.v > 400 THEN "High Risk"
    ELSE IF severity.k = "num" /\ severity.v > 200 THEN "Moderate Risk"
    ELSE "Low Risk"

\* ---- the script
NoCsv == [written |-> FALSE, rows |-> <<>>]

TransformInit ==
    /\ docs \in [DOMAIN RawFiles -> Documents]
    /\ fidx = 1
    /\ all_records = <<>>
    /\ df = <<>>
    /\ out = NoCsv
    /\ tpc = "files"
    /\ terr = "none"
    \* load.py is not run
    /\ records = <<>> /\ BATCH_SIZE = 1 /\ MAX_RETRIES = 0 /\ i = 0
    /\ batch = <<>> /\ attempt = 0 /\ total_inserted = 0 /\ lpc = "idle"
    /\ table = <<>> /\ events = <<>> /\ formed = <<>> /\ failedBatches = <<>>
    \* run_pipeline.py is not run
    /\ present = {} /\ step = 1 /\ rpc = "idle" /\ started = <<>>
    /\ finished = <<>> /\ console = <<>> /\ exit_code = -1

\* row = {"city": city, "time": pd.to_datetime(timestamp)}; row[pol] = ... (91-95)
BuildRow(city, doc, p) ==
    [city |-> city,
     time |-> ToDatetime(doc.time[p]).hour,
     vals |-> [pol \in PollutantSet |->
                  IF p <= Len(doc.hourly[pol])
                  THEN ToNumeric(doc.hourly[pol][p])
                  ELSE None]]

Crash(exc) ==
    /\ tpc' = "crashed"
    /\ terr' = exc
    /\ UNCHANGED <<docs, fidx, all_records, df, out>>

\* one pass of the per-file loop (transform.py:73-96)
ReadFile ==
    /\ tpc = "files"
    /\ fidx <= Len(RawFiles)
    /\ LET doc == docs[fidx]
           city == CityOf(RawFiles[fidx])
       IN  IF doc.kind = "badjson" \/ doc.time = <<>>
           THEN \* continue
                /\ fidx' = fidx + 1
                /\ UNCHANGED <<docs, all_records, df, out, tpc, terr>>
           ELSE IF \E p \in DOMAIN doc.time : ~ToDatetime(doc.time[p]).ok
           THEN Crash("ValueError")
           ELSE /\ all_records' =
                      all_records \o [p \in DOMAIN doc.time |-> BuildRow(city, doc, p)]
                /\ fidx' = fidx + 1
                /\ UNCHANGED <<docs, df, out, tpc, terr>>
    /\ UNCHANGED <<loadVars, runnerVars>>

\* pd.DataFrame(all_records): a column holding only None keeps it (dtype object),
\* any other column is a float column in which None has become NaN
ColumnAllNone(recs, pol) == \A r \in DOMAIN recs : recs[r].vals[pol].k = "none"
DataFrame(recs) ==
    [r \in DOMAIN recs |->
        [recs[r] EXCEPT !.vals =
            [pol \in PollutantSet |->
                IF recs[r].vals[pol].k = "none" /\ ~ColumnAllNone(recs, pol)
                THEN NaN ELSE recs[r].vals[pol]]]]

\* df.dropna(subset=POLLUTANTS, how="all")
AllPollutantsNull(row) == \A pol \in PollutantSet : IsNull(row.vals[pol])
KeepRow(row) == ~AllPollutantsNull(row)
DropNa(frame) == SelectSeq(frame, KeepRow)

\* transform.py:99-102; a frame built from no records has no columns, and dropna
\* raises KeyError for the missing subset
BuildFrame ==
    /\ tpc = "files"
    /\ fidx > Len(RawFiles)
    /\ IF all_records = <<>>
       THEN Crash("KeyError")
       ELSE /\ df' = DropNa(DataFrame(all_records))
            /\ tpc' = "derive"
            /\ UNCHANGED <<docs, fidx, all_records, out, terr>>
    /\ UNCHANGED <<loadVars, runnerVars>>

Derived(row) ==
    [city |-> row.city, time |-> row.time, vals |-> row.vals,
     AQI |-> compute_aqi(row.vals["pm2_5"]),
     severity |-> compute_severity(row),
     risk |-> classify_risk(compute_severity(row)),
     hour |-> row.time]

\* the derived features and the CSV (transform.py:105-111)
DeriveAndSave ==
    /\ tpc = "derive"
    /\ IF \E r \in DOMAIN df : SeverityRaises(df[r])
       THEN Crash("TypeError")
       ELSE /\ out' = [written |-> TRUE, rows |-> [r \in DOMAIN df |-> Derived(df[r])]]
            /\ tpc' = "done"
            /\ UNCHANGED <<docs, fidx, all_records, df, terr>>
    /\ UNCHANGED <<loadVars, runnerVars>>

TransformNext ==
    \/ ReadFile
    \/ BuildFrame
    \/ DeriveAndSave

\* =========================================================== run_pipeline.py

\* the run_step calls of main(), in order
Steps == <<"extract.py", "transform.py", "load.py", "etl_analysis.py">>

\* what a stage script that exists may return and write to its captured output
ReturnCodes == {0, 1, 2}
Outputs == {"", "text"}

\* if result.returncode != 0
StepFailedMut(rc) == rc = 1
StepFailed(rc) == rc # 0

RunnerInit ==
    /\ present \in SUBSET Range(Steps)
    /\ step = 1
    /\ rpc = "main"
    /\ started = <<>>
    /\ finished = <<>>
    /\ console = <<>>
    /\ exit_code = -1
    \* load.py is not run
    /\ records = <<>> /\ BATCH_SIZE = 1 /\ MAX_RETRIES = 0 /\ i = 0
    /\ batch = <<>> /\ attempt = 0 /\ total_inserted = 0 /\ lpc = "idle"
    /\ table = <<>> /\ events = <<>> /\ formed = <<>> /\ failedBatches = <<>>
    \* transform.py is not run
    /\ docs = <<>> /\ fidx = 1 /\ all_records = <<>> /\ df = <<>>
    /\ out = [written |-> FALSE, rows |-> <<>>] /\ tpc = "idle" /\ terr = "none"

\* run_step: subprocess.run starts the interpreter on the script and waits
Launch ==
    /\ rpc = "main"
    /\ step <= Len(Steps)
    /\ started' = Append(started, Steps[step])
    /\ rpc' = "waiting"
    /\ UNCHANGED <<present, step, finished, console, exit_code>>
    /\ UNCHANGED <<loadVars, transformVars>>

\* run_step: subprocess.run raises FileNotFoundError (the interpreter cannot be
\* started); print, sys.exit(1)
LaunchNotFound ==
    /\ rpc = "main"
    /\ step <= Len(Steps)
    /\ console' = Append(console, "Could not find script")
    /\ exit_code' = 1
    /\ rpc' = "exited"
    /\ UNCHANGED <<present, step, started, finished>>
    /\ UNCHANGED <<loadVars, transformVars>>

\* run_step: the child has ended; a non-zero return code prints the error and
\* stderr and exits 1, a zero one prints the completion and stdout and returns
ChildExits ==
    /\ rpc = "waiting"
    /\ \E rc \in ReturnCodes, text \in Outputs :
          \* the interpreter cannot open a missing script and returns non-zero
          /\ Steps[step] \notin present => (rc # 0 /\ text = "text")
          /\ finished' = Append(finished, [script |-> Steps[step], rc |-> rc])
          /\ IF StepFailed(rc)
             THEN /\ console' = console \o <<"ERROR running", text>>
                  /\ exit_code' = 1
                  /\ rpc' = "exited"
                  /\ UNCHANGED step
             ELSE /\ console' = console \o <<"Completed", text>>
                  /\ step' = step + 1
                  /\ rpc' = "main"
                  /\ UNCHANGED exit_code
    /\ UNCHANGED <<present, started>>
    /\ UNCHANGED <<loadVars, transformVars>>

\* main: all four run_step calls have returned; print the banner, exit 0
MainEnd ==
    /\ rpc = "main"
    /\ step > Len(Steps)
    /\ console' = Append(console, "ETL Pipeline Finished Successfully")
    /\ exit_code' = 0
    /\ rpc' = "exited"
    /\ UNCHANGED <<present, step, started, finished>>
    /\ UNCHANGED <<loadVars, transformVars>>

RunnerNext ==
    \/ Launch
    \/ LaunchNotFound
    \/ ChildExits
    \/ MainEnd

SpecLoad == LoadInit /\ [][LoadNext]_vars

SpecTransform == TransformInit /\ [][TransformNext]_vars

SpecRunner == RunnerInit /\ [][RunnerNext]_vars

\* ------------------------------------------------- what the run is measured against
CeilDiv(n, d) == (n + d - 1) \div d

\* the number of batches of the run and the rows of batch k (1-based)
NumBatches == CeilDiv(Len(records), BATCH_SIZE)
RowsOfBatch(k) ==
    [p \in 1..(Min(k * BATCH_SIZE, Len(records)) - (k - 1) * BATCH_SIZE)
        |-> records[(k - 1) * BATCH_SIZE + p]]

IsAttempt(e) == e.kind \in {"ok", "fail"}
Attempts(k) == {p \in DOMAIN events : IsAttempt(events[p]) /\ events[p].batch = k}
Oks(k) == {p \in DOMAIN events : events[p].kind = "ok" /\ events[p].batch = k}
Fails(k) == {p \in DOMAIN events : events[p].kind = "fail" /\ events[p].batch = k}
FailsBefore(k, q) == {p \in Fails(k) : p < q}

RECURSIVE Ascending(_)
Ascending(S) ==
    IF S = {} THEN <<>>
    ELSE LET m == CHOOSE x \in S : \A y \in S : x <= y
         IN  <<m>> \o Ascending(S \ {m})

RECURSIVE SumRows(_)
SumRows(S) ==
    IF S = {} THEN 0
    ELSE LET k == CHOOSE x \in S : TRUE
         IN  Len(RowsOfBatch(k)) + SumRows(S \ {k})

Inserted == {k \in 1..NumBatches : Oks(k) # {}}
Exhausted == {k \in 1..NumBatches :
                 Oks(k) = {} /\ Cardinality(Fails(k)) = MAX_RETRIES + 1}

\* C1: when the batch loop has finished, total_inserted is the sum of the row
\* counts of exactly the batches that had a successful insert, and the failed
\* batches reported are, in ascending order, exactly the batches whose
\* MAX_RETRIES+1 attempts all failed.
C1_Totals ==
    lpc = "done" =>
        /\ total_inserted = SumRows(Inserted)
        /\ failedBatches = Ascending(Exhausted)
        /\ Len(table) = total_inserted

\* 5 rows in batches of 2 (2, 2, 1), batch 2 failing every attempt
C1_Witness ==
    /\ lpc = "done"
    /\ Len(records) = 5 /\ BATCH_SIZE = 2 /\ MAX_RETRIES = 2
    /\ Cardinality(Fails(2)) = 3
    /\ failedBatches = <<2>>
    /\ total_inserted = 3

\* C2: every batch is submitted at least once and at most MAX_RETRIES+1 times; it
\* is given up only after exactly MAX_RETRIES+1 failed attempts, and after a
\* successful attempt no further attempt is made on it.
C2_AttemptBounds ==
    /\ \A k \in 1..NumBatches :
          /\ Cardinality(Attempts(k)) <= MAX_RETRIES + 1
          /\ (lpc = "done" \/ k < BatchNumber(i, BATCH_SIZE))
                => Cardinality(Attempts(k)) >= 1
    /\ \A q \in DOMAIN events :
          /\ events[q].kind = "giveup" =>
                /\ Cardinality(FailsBefore(events[q].batch, q)) = MAX_RETRIES + 1
                /\ Oks(events[q].batch) = {}
          /\ events[q].kind = "ok" =>
                \A p \in Attempts(events[q].batch) : p <= q

C2_Witness ==
    /\ lpc = "done"
    /\ MAX_RETRIES = 2
    /\ \E k \in 1..NumBatches : Cardinality(Fails(k)) = 3 /\ k \in Range(failedBatches)
    /\ \E k \in 1..NumBatches : Cardinality(Fails(k)) = 1 /\ Oks(k) # {}

\* batch k is settled before position q of the history: it succeeded, or it failed
\* MAX_RETRIES+1 times
SettledBefore(k, q) ==
    \/ \E p \in Oks(k) : p < q
    \/ Cardinality(FailsBefore(k, q)) = MAX_RETRIES + 1

\* C3: batches are processed strictly in slice order, a batch is first attempted
\* only after the one before it has succeeded or exhausted its attempts, and a
\* batch that exhausts its retries neither stops later batches from being
\* attempted nor aborts the run.
C3_OrderAndIsolation ==
    /\ \A p, q \in DOMAIN events : p < q => events[p].batch <= events[q].batch
    /\ \A q \in DOMAIN events :
          (IsAttempt(events[q]) /\ events[q].batch > 1)
              => SettledBefore(events[q].batch - 1, q)
    /\ \A q \in DOMAIN events :
          (events[q].kind = "giveup" /\ events[q].batch < NumBatches /\ lpc = "done")
              => Attempts(events[q].batch + 1) # {}
    /\ lpc = "done" => \A k \in 1..NumBatches : k \in Inserted \/ k \in Exhausted

C3_Witness ==
    /\ lpc = "done"
    /\ NumBatches >= 3
    /\ 1 \in Exhausted /\ 2 \in Inserted /\ 3 \in Exhausted

\* C4: the rows are cut into consecutive slices of BATCH_SIZE rows, only the last
\* one possibly shorter: ceil(n / BATCH_SIZE) batches whose concatenation in
\* index order is the row sequence.
C4_Partition ==
    /\ \A k \in DOMAIN formed :
          /\ formed[k] = RowsOfBatch(k)
          /\ Len(formed[k]) >= 1
          /\ Len(formed[k]) <= BATCH_SIZE
          /\ k < NumBatches => Len(formed[k]) = BATCH_SIZE
    /\ lpc = "done" =>
          /\ Len(formed) = NumBatches
          /\ Concat(formed) = records

C4_Witness ==
    /\ lpc = "done"
    /\ Len(records) = 5 /\ BATCH_SIZE = 2
    /\ formed = << <<1, 2>>, <<3, 4>>, <<5>> >>

\* C5: a backoff delay happens only between two attempts on the same batch and
\* lasts 2^(failed attempts on the batch so far): none after the final failed
\* attempt of a batch, after a success, or before the first attempt on the next
\* batch.
C5_BackoffOnlyBetweenAttempts ==
    \A q \in DOMAIN events :
        events[q].kind = "sleep" =>
            LET k == events[q].batch IN
            /\ q > 1 /\ events[q - 1].kind = "fail" /\ events[q - 1].batch = k
            /\ events[q].dur = Pow2(Cardinality(FailsBefore(k, q)))
            /\ q < Len(events) => (IsAttempt(events[q + 1]) /\ events[q + 1].batch = k)
            /\ q = Len(events) => (lpc = "while" /\ attempt <= MAX_RETRIES)

\* ------------------------------------------- what the flattener is measured against
Finished == tpc \in {"done", "crashed"}

\* a reading as the claims speak of it: <<v>>, or <<>> for null
Norm(x) == IF x.k = "num" THEN <<x.v>> ELSE <<>>
ReadingAt(doc, pol, p) ==
    IF p <= Len(doc.hourly[pol]) /\ ~doc.hourly[pol][p].null
    THEN <<doc.hourly[pol][p].v>> ELSE <<>>

Parses(ts) == \E h \in DOMAIN ValidTimes : ValidTimes[h] = ts
HourOf(ts) == (CHOOSE h \in DOMAIN ValidTimes : ValidTimes[h] = ts) - 1

\* the indices of a document's time axis that are to give a row
WantedIndex(doc, p) ==
    /\ Parses(doc.time[p])
    /\ \E pol \in PollutantSet : ReadingAt(doc, pol, p) # <<>>

RECURSIVE WantedRows(_, _, _)
WantedRows(city, doc, p) ==
    IF p > Len(doc.time) THEN <<>>
    ELSE (IF WantedIndex(doc, p)
          THEN << [city |-> city, time |-> HourOf(doc.time[p]),
                   vals |-> [pol \in PollutantSet |-> ReadingAt(doc, pol, p)]] >>
          ELSE <<>>) \o WantedRows(city, doc, p + 1)

RECURSIVE WantedFrom(_)
WantedFrom(f) ==
    IF f > Len(RawFiles) THEN <<>>
    ELSE (IF docs[f].kind = "json" THEN WantedRows(CityOf(RawFiles[f]), docs[f], 1)
          ELSE <<>>) \o WantedFrom(f + 1)

ExpectedRows == WantedFrom(1)

\* the rows of the staged CSV, readings normalised
OutputRows ==
    [r \in DOMAIN out.rows |->
        [city |-> out.rows[r].city, time |-> out.rows[r].time,
         vals |-> [pol \in PollutantSet |-> Norm(out.rows[r].vals[pol])]]]

NoGarbage == \A f \in DOMAIN docs : \A p \in DOMAIN docs[f].time : Parses(docs[f].time[p])
AllJson == \A f \in DOMAIN docs : docs[f].kind = "json"

\* the weighted sum over the non-null readings of a row
RECURSIVE WeightedNonNull(_, _)
WeightedNonNull(row, t) ==
    IF t = 0 THEN 0
    ELSE WeightedNonNull(row, t - 1)
         + (IF row.vals[SeverityTerms[t][1]].k = "num"
            THEN row.vals[SeverityTerms[t][1]].v * SeverityTerms[t][2] ELSE 0)

\* C6: the severity of every row is the weighted sum 5*pm2_5 + 3*pm10 + 4*NO2 +
\* 4*SO2 + 2*CO + 3*ozone in which a null reading counts 0, and the row's risk
\* flag is the classification of that number.
C6_NullAsZero ==
    tpc = "done" =>
        \A r \in DOMAIN out.rows :
            LET w == WeightedNonNull(out.rows[r], Len(SeverityTerms)) IN
            /\ out.rows[r].severity = Num(w)
            /\ out.rows[r].risk = classify_risk(Num(w))

\* C7: for snapshots whose timestamps all parse, the flattener outputs, in
\* time-axis order, exactly one row for each index at which some tracked
\* pollutant has a non-null reading, each field holding the reading at that
\* index or null, and no row whose seven pollutant fields are all null.
C7_FlattenRows ==
    (Finished /\ AllJson /\ NoGarbage) => OutputRows = ExpectedRows

\* C8: a timestamp that fails to parse costs only its own row: the run goes on
\* and the rows of every other timestamp of every snapshot are produced.
C8_BadTimestampDropsOneRow ==
    (Finished /\ ~NoGarbage) => (tpc = "done" /\ OutputRows = ExpectedRows)

\* C9: a malformed document is skipped and never fatal: whatever the documents
\* are, all of them malformed or with an empty time axis included, the flatten
\* stage completes and outputs exactly the rows of the well-formed documents.
C9_MalformedNeverFatal ==
    ((\E f \in DOMAIN docs : docs[f].kind = "badjson") /\ NoGarbage) =>
        /\ tpc # "crashed"
        /\ tpc = "done" => (out.written /\ OutputRows = ExpectedRows)

\* ---------------------------------------------- what the runner is measured against
Reported == "ETL Pipeline Finished Successfully" \in Range(console)

\* C10: the stages run one at a time in the order extract, transform, load,
\* analysis; a stage starts only after the one before it has ended with return
\* code 0, and when a stage ends with another return code or its script is
\* missing the runner exits non-zero, starts no later stage and does not report
\* success.
C10_SequentialAbortOnFailure ==
    /\ Len(started) <= Len(Steps)
    /\ \A k \in DOMAIN started : started[k] = Steps[k]
    /\ Len(finished) <= Len(started) /\ Len(started) <= Len(finished) + 1
    /\ \A k \in DOMAIN finished : finished[k].script = started[k]
    /\ \A k \in DOMAIN started : k > 1 => finished[k - 1].rc = 0
    /\ \A k \in DOMAIN finished :
          (finished[k].rc # 0 \/ finished[k].script \notin present) =>
              /\ k = Len(started)
              /\ rpc = "exited" /\ exit_code = 1
              /\ ~Reported
    /\ (Reported \/ exit_code = 0) =>
          /\ Len(finished) = Len(Steps)
          /\ \A k \in DOMAIN finished : finished[k].rc = 0
          /\ Range(Steps) \subseteq present

\* transform.py is missing: the runner has exited 1 with load.py never started
C10_Witness ==
    /\ rpc = "exited" /\ exit_code = 1
    /\ "transform.py" \notin present
    /\ started = <<"extract.py", "transform.py">>
    /\ finished[1].rc = 0 /\ finished[2].rc # 0
    /\ ~Reported

====
